---- MODULE Spec2Model ----
(***************************************************************************)
(* BioClusterQuant: nearest-neighbour-distance metrics of the foci of one  *)
(* cell (calculate_nnd_metrics_for_cell) and the batch run over a folder   *)
(* of per-cell CSV files (process_folder_gui).                             *)
(*                                                                         *)
(* Numbers.  Coordinates are integers (pixel centroids).  A distance is    *)
(* kept exactly, by its square: the natural q stands for sqrt(q).  Means   *)
(* of distances and of inverse distances are kept exactly as               *)
(*     eps * (1/EPSILON)  +  SUM over squarefree s of rad[s] * sqrt(s)     *)
(* with rational coefficients <<numerator, denominator>> in lowest terms.  *)
(* The square roots of distinct squarefree naturals are linearly           *)
(* independent over the rationals, and 1/EPSILON = 10^9 exceeds every      *)
(* other term by far more than the coefficients can make up for, so two    *)
(* such numbers are equal exactly when their coefficients are.             *)
(***************************************************************************)
EXTENDS Integers, Sequences, FiniteSets, TLC

\* ------------------------------------------------------------ bounds
MaxX == 1
MaxY == 1
MaxPoints == 3
MaxDen == 3
MaxRuns == 2
MaxClock == 2
TicksPerSecond == 2

\* ------------------------------------------------------------ constants
InvEPSILON == 1000000000
n_neighbors == 2
NaN == [nan |-> TRUE]

\* ------------------------------------------------------------ exact numbers
RECURSIVE GCD(_, _)
GCD(a, b) == IF b = 0 THEN a ELSE GCD(b, a % b)

Rat(n, d) == LET g == GCD(n, d) IN <<n \div g, d \div g>>
RatZero == <<0, 1>>
RatAdd(a, b) == Rat(a[1] * b[2] + b[1] * a[2], a[2] * b[2])
RatDivInt(a, k) == Rat(a[1], a[2] * k)
RatLeq(a, b) == a[1] * b[2] <= b[1] * a[2]

EmptyRad == [s \in {} |-> RatZero]
Zero == [eps |-> RatZero, rad |-> EmptyRad]
Coef(x, s) == IF s \in DOMAIN x.rad THEN x.rad[s] ELSE RatZero

\* the largest k with k*k dividing q (q > 0)
SquarePart(q) == CHOOSE k \in 1..q : /\ q % (k * k) = 0
                                     /\ \A j \in (k + 1)..q : q % (j * j) # 0

\* the distance sqrt(q) as an exact number
Sqrt(q) ==
  IF q = 0 THEN Zero
  ELSE LET k == SquarePart(q)
           s == q \div (k * k)
       IN [eps |-> RatZero, rad |-> [r \in {s} |-> <<k, 1>>]]

\* an element of the clamped array: the floor EPSILON, or the distance sqrt(q)
EPSILON == [floor |-> TRUE, q |-> 0]
Distance(q) == [floor |-> FALSE, q |-> q]

\* 1.0 / x: 1 / EPSILON, or 1 / sqrt(q) = sqrt(s) / (k * s) for q = k*k*s > 0
Inverse(x) ==
  IF x.floor THEN [eps |-> <<1, 1>>, rad |-> EmptyRad]
  ELSE LET k == SquarePart(x.q)
           s == x.q \div (k * k)
       IN [eps |-> RatZero, rad |-> [r \in {s} |-> Rat(1, k * s)]]

Add(x, y) ==
  [eps |-> RatAdd(x.eps, y.eps),
   rad |-> [s \in (DOMAIN x.rad) \cup (DOMAIN y.rad) |->
              RatAdd(Coef(x, s), Coef(y, s))]]

DivInt(x, k) ==
  [eps |-> RatDivInt(x.eps, k),
   rad |-> [s \in DOMAIN x.rad |-> RatDivInt(x.rad[s], k)]]

RECURSIVE Sum(_)
Sum(xs) == IF xs = << >> THEN Zero ELSE Add(Head(xs), Sum(Tail(xs)))

\* x <= y and x < y, decided coefficient by coefficient (all coefficients are
\* non-negative, so this is sound; it is complete whenever y is a multiple of x)
Leq(x, y) ==
  /\ RatLeq(x.eps, y.eps)
  /\ \A s \in (DOMAIN x.rad) \cup (DOMAIN y.rad) : RatLeq(Coef(x, s), Coef(y, s))
Less(x, y) == Leq(x, y) /\ x # y

\* ------------------------------------------------------------ numpy / sklearn
\* squared Euclidean distance of two points
Dist2(p, q) == (p[1] - q[1]) * (p[1] - q[1]) + (p[2] - q[2]) * (p[2] - q[2])

\* mutant: the distances of each row are left in input order
kneighbors_unsorted(coords) ==
  [i \in 1..Len(coords) |->
     SubSeq([j \in 1..Len(coords) |-> Dist2(coords[i], coords[j])], 1, n_neighbors)]

\* NearestNeighbors(n_neighbors=2).fit(coords).kneighbors(coords): for each
\* query point the n_neighbors smallest distances to the fitted points, the
\* query point itself among them, in ascending order
kneighbors(coords) ==
  [i \in 1..Len(coords) |->
     SubSeq(SortSeq([j \in 1..Len(coords) |-> Dist2(coords[i], coords[j])],
                    LAMBDA a, b : a < b),
            1, n_neighbors)]

\* mutant: distances[:, 0], the distance of each point to itself
FirstColumn(distances) == [i \in 1..Len(distances) |-> distances[i][1]]

\* distances[:, 1]
SecondColumn(distances) == [i \in 1..Len(distances) |-> distances[i][2]]

\* mutant: np.sum in place of np.mean
SumDist(nnds) == Sum([i \in 1..Len(nnds) |-> Sqrt(nnds[i])])

\* np.mean of an array of distances
MeanDist(nnds) == DivInt(Sum([i \in 1..Len(nnds) |-> Sqrt(nnds[i])]), Len(nnds))

\* np.maximum(nnds, EPSILON): sqrt(q) < 1e-9 only for q = 0, q being a natural
Maximum(nnds) ==
  [i \in 1..Len(nnds) |-> IF nnds[i] < 1 THEN EPSILON ELSE Distance(nnds[i])]

\* mutant: np.sum in place of np.mean
SumInverse(xs) == Sum([i \in 1..Len(xs) |-> Inverse(xs[i])])

\* np.mean(1.0 / nnds_no_zero)
MeanInverse(xs) == DivInt(Sum([i \in 1..Len(xs) |-> Inverse(xs[i])]), Len(xs))

\* the statements of the try block, in order; a fault names the one that raises
TrySteps == <<"fit", "kneighbors", "column", "mean", "maximum", "divide", "mean_inverse">>
Faults == {TrySteps[i] : i \in 1..Len(TrySteps)}
StepIndex(st) == CHOOSE i \in 1..Len(TrySteps) : TrySteps[i] = st
\* statement st has completed when the fault, if any, is at a later statement
Completed(st, fault) == fault = "none" \/ StepIndex(st) < StepIndex(fault)

\* lines 55-72: the branch for n_foci >= 2
nnd_metrics(coords, fault) ==
  LET nnds == SecondColumn(kneighbors(coords))
      avg_nnd == IF Completed("mean", fault) THEN MeanDist(nnds) ELSE NaN
      avg_inv_nnd == IF Completed("mean_inverse", fault)
                       THEN MeanInverse(Maximum(nnds)) ELSE NaN
  IN <<avg_nnd, avg_inv_nnd, Len(coords)>>

\* mutant: the n_foci == 1 case is missing and falls into the final else
calculate_without_single_case(coords, fault) ==
  IF Len(coords) >= 2 THEN [ret |-> nnd_metrics(coords, fault), searched |-> TRUE]
  ELSE [ret |-> <<NaN, NaN, 0>>, searched |-> FALSE]

\* the returned tuple, and whether the try block (the neighbour search) was entered
calculate_nnd_metrics_for_cell(coords, fault) ==
  LET n_foci == Len(coords) IN
  IF n_foci = 1 THEN [ret |-> <<NaN, NaN, 1>>, searched |-> FALSE]
  ELSE IF n_foci >= 2 THEN [ret |-> nnd_metrics(coords, fault), searched |-> TRUE]
  ELSE [ret |-> <<NaN, NaN, 0>>, searched |-> FALSE]

\* ------------------------------------------------------------ state
VARIABLES
  coords,        \* the PointSet handed to calculate_nnd_metrics_for_cell
  fault,         \* the statement of its try block that raises, or "none"
  result,        \* the tuple it returned
  searched,      \* whether that call entered the neighbour search
  pc,            \* "ready", "returned", "permuted", "scaled"
  ref,           \* the call before a permuted or scaled one: its input and result
  folder,        \* the input folder: file name -> content
  clock,         \* datetime.now(), in ticks of 1/TicksPerSecond second
  status_label,  \* the GUI status label
  runs           \* one record per finished run of process_folder_gui

calcVars == <<coords, fault, result, searched, pc, ref>>
batchVars == <<folder, clock, status_label, runs>>
vars == <<coords, fault, result, searched, pc, ref, folder, clock, status_label, runs>>

\* ------------------------------------------------------------ the Calculator
Xs == 0..MaxX
Ys == 0..MaxY
\* the grid, and the points of the specification's end-to-end example
Points == (Xs \X Ys) \cup {<<0, 0>>, <<0, 4>>, <<0, 8>>}
PointSets == UNION {[1..n -> Points] : n \in 0..MaxPoints}

NoResult == <<NaN, NaN, 0>>
NoRef == [coords |-> << >>, result |-> NoResult]
NoFolder == [f \in {} |-> 0]

BatchIdle ==
  /\ folder = NoFolder
  /\ clock = 0
  /\ status_label = "Status: Idle"
  /\ runs = << >>

\* p is not after q in the order DataFrame rows are first laid out in
PointLeq(p, q) == p[1] < q[1] \/ (p[1] = q[1] /\ p[2] <= q[2])
Ascending(s) == \A i \in 1..(Len(s) - 1) : PointLeq(s[i], s[i + 1])

\* every multiset of points is an input (CalculatePermuted supplies each of its
\* other orders), with every place the try block can fail
Init ==
  /\ coords \in {s \in PointSets : Ascending(s)}
  /\ fault \in IF Len(coords) >= 2 THEN Faults \cup {"none"} ELSE {"none"}
  /\ result = NoResult
  /\ searched = FALSE
  /\ pc = "ready"
  /\ ref = NoRef
  /\ BatchIdle

\* a call on the PointSet
Calculate ==
  /\ pc = "ready"
  /\ LET r == calculate_nnd_metrics_for_cell(coords, fault)
     IN /\ result' = r.ret
        /\ searched' = r.searched
  /\ pc' = "returned"
  /\ UNCHANGED <<coords, fault, ref>>
  /\ UNCHANGED batchVars

Orders(n) == {f \in [1..n -> 1..n] : \A i, j \in 1..n : f[i] = f[j] => i = j}

\* a second call, on the same points in another order; the two calls are
\* compared when both run to completion
CalculatePermuted ==
  /\ pc = "returned"
  /\ fault = "none"
  /\ \E f \in Orders(Len(coords)) :
       LET permuted == [i \in 1..Len(coords) |-> coords[f[i]]]
           r == calculate_nnd_metrics_for_cell(permuted, fault)
       IN /\ permuted # coords
          /\ coords' = permuted
          /\ result' = r.ret
          /\ searched' = r.searched
  /\ ref' = [coords |-> coords, result |-> result]
  /\ pc' = "permuted"
  /\ UNCHANGED fault
  /\ UNCHANGED batchVars

\* p moved toward the center c by the factor num/den
ScalePoint(p, c, num, den) ==
  <<c[1] + (num * (p[1] - c[1])) \div den, c[2] + (num * (p[2] - c[2])) \div den>>
\* the scaled point is again a point with integer coordinates
ScalesExactly(p, c, num, den) ==
  /\ (num * (p[1] - c[1])) % den = 0
  /\ (num * (p[2] - c[2])) % den = 0

\* a second call, on the points scaled toward a common center by 0 < num/den < 1;
\* the two calls are compared when both run to completion
CalculateScaled ==
  /\ pc = "returned"
  /\ fault = "none"
  /\ \E c \in Points, den \in 2..MaxDen :
       \E num \in 1..(den - 1) :
         LET scaled == [i \in 1..Len(coords) |-> ScalePoint(coords[i], c, num, den)]
             r == calculate_nnd_metrics_for_cell(scaled, fault)
         IN /\ \A i \in 1..Len(coords) : ScalesExactly(coords[i], c, num, den)
            /\ coords' = scaled
            /\ result' = r.ret
            /\ searched' = r.searched
  /\ ref' = [coords |-> coords, result |-> result]
  /\ pc' = "scaled"
  /\ UNCHANGED fault
  /\ UNCHANGED batchVars

Next == Calculate \/ CalculatePermuted \/ CalculateScaled

Spec == Init /\ [][Next]_vars

\* ------------------------------------------------------------ claims: Calculator
Called == pc # "ready"
avgNND == result[1]
avgInverseNND == result[2]
count == result[3]

Min(S) == CHOOSE m \in S : \A x \in S : m <= x
\* the squared distance from point i of s to its nearest other point
NearestOther(s, i) == Min({Dist2(s[i], s[j]) : j \in (1..Len(s)) \ {i}})
\* mean over i of d_i
ExpectedAvgNND(s) ==
  DivInt(Sum([i \in 1..Len(s) |-> Sqrt(NearestOther(s, i))]), Len(s))
\* mean over i of 1 / max(d_i, EPSILON); d_i < EPSILON only for d_i = 0
ExpectedAvgInverseNND(s) ==
  DivInt(Sum([i \in 1..Len(s) |->
                IF NearestOther(s, i) = 0 THEN Inverse(EPSILON)
                ELSE Inverse(Distance(NearestOther(s, i)))]), Len(s))
HasSeparatePoint(s) == \E i \in 1..Len(s) : NearestOther(s, i) > 0

RECURSIVE RadBound(_, _)
\* an upper bound of SUM rad[s] * sqrt(s) over the radicands S: sqrt(s) <= s
RadBound(x, S) ==
  IF S = {} THEN RatZero
  ELSE LET s == CHOOSE t \in S : TRUE
       IN RatAdd(<<x.rad[s][1] * s, x.rad[s][2]>>, RadBound(x, S \ {s}))
\* x <= 1/EPSILON: with b = 1 - x.eps and U >= the rest of x, U <= b * 10^9;
\* for b > 0 that follows from U[1] * b[2] <= 10^9, as b[1] * U[2] >= 1
LeqInvEpsilon(x) ==
  LET b == <<x.eps[2] - x.eps[1], x.eps[2]>>
      U == RadBound(x, DOMAIN x.rad)
  IN /\ b[1] >= 0
     /\ IF b[1] = 0 THEN U[1] = 0 ELSE U[1] * b[2] <= InvEPSILON

\* C1: a PointSet of 0 points gives (undefined, undefined, 0) and one of exactly
\* 1 point gives (undefined, undefined, 1), whatever the point; neither call
\* enters the nearest-neighbour search.
C1_Degenerate ==
  Called =>
    /\ Len(coords) = 0 => result = <<NaN, NaN, 0>> /\ ~searched
    /\ Len(coords) = 1 => result = <<NaN, NaN, 1>> /\ ~searched
C1_Witness == pc = "returned" /\ coords = << <<1, 1>> >> /\ result = <<NaN, NaN, 1>>

\* C2: for n >= 2 points, duplicates included, a call that computes the mean
\* returns avgNND = mean over i of the distance from point i to its nearest other
\* point, and count = n; two points at distance d > 0 give d, and
\* {(0,0),(0,4),(0,8)} gives 4 with count 3.
C2_AvgNND ==
  (Called /\ Len(coords) >= 2) =>
    /\ count = Len(coords)
    /\ Completed("mean", fault) =>
         /\ avgNND = ExpectedAvgNND(coords)
         /\ Len(coords) = 2 => avgNND = Sqrt(Dist2(coords[1], coords[2]))
         /\ coords = << <<0, 0>>, <<0, 4>>, <<0, 8>> >> =>
              avgNND = [eps |-> RatZero, rad |-> <<<<4, 1>>>>] /\ count = 3
C2_Witness ==
  /\ pc = "returned"
  /\ fault = "none"
  /\ coords = << <<0, 0>>, <<0, 4>>, <<0, 8>> >>
  /\ result = <<Sqrt(16), Inverse(Distance(16)), 3>>

\* C3: for n >= 2 points a call that runs to completion returns avgInverseNND =
\* mean over i of 1 / max(d_i, EPSILON), the clamp leaving avgNND alone: two
\* coincident points give avgInverseNND = 1/EPSILON and avgNND = 0, and
\* avgInverseNND always lies in (0, 1/EPSILON].
C3_AvgInverseNND ==
  (Called /\ Len(coords) >= 2 /\ fault = "none") =>
    /\ avgInverseNND = ExpectedAvgInverseNND(coords)
    /\ avgNND = ExpectedAvgNND(coords)
    /\ (Len(coords) = 2 /\ coords[1] = coords[2]) =>
         avgInverseNND = Inverse(EPSILON) /\ avgNND = Zero
    /\ Less(Zero, avgInverseNND)
    /\ LeqInvEpsilon(avgInverseNND)
C3_Witness ==
  /\ pc = "returned"
  /\ fault = "none"
  /\ coords = << <<0, 0>>, <<0, 0>>, <<1, 1>> >>
  /\ avgInverseNND = [eps |-> <<2, 3>>, rad |-> (2 :> <<1, 6>>)]
  /\ avgNND = [eps |-> RatZero, rad |-> (2 :> <<1, 3>>)]

\* C4: for n >= 2 points a fault at any statement of the computation leaves BOTH
\* metrics undefined with count = n, the metrics are undefined only after such a
\* fault, and so the two metrics are always both defined or both undefined.
C4_BothOrNeither ==
  (Called /\ Len(coords) >= 2) =>
    /\ count = Len(coords)
    /\ fault # "none" => avgNND = NaN /\ avgInverseNND = NaN
    /\ fault = "none" => avgNND # NaN /\ avgInverseNND # NaN
    /\ avgNND = NaN <=> avgInverseNND = NaN

\* C5 as stated: scaling the points of a PointSet of n >= 2 points toward a
\* common center by a factor strictly between 0 and 1 strictly decreases avgNND
\* and strictly increases avgInverseNND.
C5_StrictlyMonotone ==
  (pc = "scaled" /\ Len(coords) >= 2) =>
    /\ Less(avgNND, ref.result[1])
    /\ Less(ref.result[2], avgInverseNND)

\* C5 as amended: the scaling never increases avgNND and never decreases
\* avgInverseNND; both changes are strict when some point has no coincident
\* duplicate, and when every point has one both metrics stay as they were
\* (avgNND = 0, avgInverseNND = 1/EPSILON).
C5_Monotone ==
  (pc = "scaled" /\ Len(coords) >= 2) =>
    /\ Leq(avgNND, ref.result[1])
    /\ Leq(ref.result[2], avgInverseNND)
    /\ HasSeparatePoint(ref.coords) =>
         Less(avgNND, ref.result[1]) /\ Less(ref.result[2], avgInverseNND)
    /\ ~HasSeparatePoint(ref.coords) =>
         /\ result = ref.result
         /\ avgNND = Zero
         /\ avgInverseNND = Inverse(EPSILON)
C5_Witness ==
  /\ pc = "scaled"
  /\ ref.coords = << <<0, 0>>, <<0, 4>>, <<0, 8>> >>
  /\ coords = << <<0, 2>>, <<0, 4>>, <<0, 6>> >>
  /\ avgNND = Sqrt(4)
  /\ ref.result[1] = Sqrt(16)

\* C6: a call on any permutation of the points returns the same avgNND,
\* avgInverseNND and count as the call on the original order, also when several
\* points are equidistant-nearest or coincident.
C6_OrderIndependent == pc = "permuted" => result = ref.result
C6_Witness ==
  /\ pc = "permuted"
  /\ ref.coords = << <<0, 0>>, <<0, 0>>, <<0, 1>> >>
  /\ coords = << <<0, 1>>, <<0, 0>>, <<0, 0>> >>
  /\ result = ref.result
  /\ avgNND = [eps |-> RatZero, rad |-> <<<<1, 3>>>>]

\* ------------------------------------------------------------ the batch run
\* A file name is its stem, a sequence of characters kept by their rank in the
\* character order; every character used sorts after ".", so sorting the paths
\* of one folder sorts the stems.  OUTPUT_PREFIX stands for the leading
\* "NND_Summary_Results_", a timestamp for the digits strftime prints.
OUTPUT_PREFIX == <<2>>
\* now.strftime("%Y%m%d_%H%M%S"): fixed width, the fraction of the second dropped
strftime(now) == <<now \div TicksPerSecond>>

StartsWith(name, prefix) ==
  Len(name) >= Len(prefix) /\ SubSeq(name, 1, Len(prefix)) = prefix

RECURSIVE LexLess(_, _)
\* the order of Python strings
LexLess(a, b) ==
  IF b = << >> THEN FALSE
  ELSE IF a = << >> THEN TRUE
  ELSE IF Head(a) # Head(b) THEN Head(a) < Head(b)
  ELSE LexLess(Tail(a), Tail(b))

RECURSIVE Sorted(_)
\* sorted(glob.glob(search_path))
Sorted(names) ==
  IF names = {} THEN << >>
  ELSE LET first == CHOOSE n \in names : \A m \in names \ {n} : LexLess(n, m)
       IN <<first>> \o Sorted(names \ {first})

\* file contents, by what pd.read_csv makes of them
EmptyFile == [kind |-> "empty"]
Unreadable == [kind |-> "unreadable"]
Table(hasXY, hasLabel, pts, flt) ==
  [kind |-> "table", hasXY |-> hasXY, hasLabel |-> hasLabel, coords |-> pts, fault |-> flt]
SummaryFile(rows) == [kind |-> "summary", rows |-> rows]

\* the columns of the DataFrame read from a file that parses; a summary has the
\* output columns, of which "Label" is one and "X", "Y" are none
HasXY(content) == content.kind = "table" /\ content.hasXY
HasLabel(content) == content.kind = "summary" \/ (content.kind = "table" /\ content.hasLabel)
Rows(content) == IF content.kind = "table" THEN content.coords ELSE content.rows

Row(identifier, label, avg_nnd, avg_inv_nnd, num_foci) ==
  [Identifier |-> identifier, Label |-> label, Avg_NND |-> avg_nnd,
   Avg_Inverse_NND |-> avg_inv_nnd, NumFoci |-> num_foci]

\* mutant: the check for a previous output file is missing
never_skipped(filename) == FALSE

\* filename.startswith("NND_Summary_Results_")
is_previous_output(filename) == StartsWith(filename, OUTPUT_PREFIX)

\* mutant: the general handler records the fault like an empty file
fault_row_as_empty(identifier) == Row(identifier, "Processing Error", NaN, NaN, 0)

\* the row of the handler "except Exception"
fault_row(identifier) == Row(identifier, "Processing Error", NaN, NaN, -1)

\* one pass of the loop body: the rows appended and the count added
process_file(filename, content) ==
  IF is_previous_output(filename) THEN [rows |-> << >>, processed |-> 0]
  ELSE IF content.kind = "empty"
    THEN [rows |-> <<Row(filename, "Empty File", NaN, NaN, 0)>>, processed |-> 0]
  ELSE IF content.kind = "unreadable"
    THEN [rows |-> <<fault_row(filename)>>, processed |-> 0]
  ELSE IF ~HasXY(content) THEN [rows |-> << >>, processed |-> 0]
  ELSE LET label_value == IF HasLabel(content) /\ Len(Rows(content)) > 0
                            THEN "ROI" ELSE "N/A"
           r == IF Len(Rows(content)) < 1 THEN <<NaN, NaN, 0>>
                ELSE calculate_nnd_metrics_for_cell(content.coords, content.fault).ret
       IN [rows |-> <<Row(filename, label_value, r[1], r[2], r[3])>>, processed |-> 1]

RECURSIVE process_files(_, _)
\* the loop over csv_files: all_results and processed_count
process_files(csv_files, dir) ==
  IF csv_files = << >> THEN [rows |-> << >>, processed |-> 0]
  ELSE LET one == process_file(Head(csv_files), dir[Head(csv_files)])
           rest == process_files(Tail(csv_files), dir)
       IN [rows |-> one.rows \o rest.rows, processed |-> one.processed + rest.processed]

\* mutant: the run gives up when no file was processed without a fault
no_usable_unit(all_results, processed_count) == processed_count = 0

\* "if not all_results"
no_results(all_results, processed_count) == all_results = << >>

StatusIdle == "Status: Idle"
StatusInvalidFolder == "Error: Please select a valid input folder."
StatusNoCsv == "Error: No CSV files found in folder."
StatusNoResults == "Finished: No results generated."
StatusSuccess == "Success! Results saved"
StatusSaveError == "Error saving results!"

\* the record kept of a finished run
RunRecord(valid, name, files, out, saved, status) ==
  [valid_folder |-> valid, output_filename |-> name, csv_files |-> files,
   all_results |-> out.rows, processed_count |-> out.processed,
   saved |-> saved, status |-> status]

NothingDone == [rows |-> << >>, processed |-> 0]

\* one run: is_dir says whether input_folder is a folder, to_csv_raises whether
\* writing the summary fails (nothing is kept of a failed write)
process_folder_gui(is_dir, to_csv_raises) ==
  LET output_filename == OUTPUT_PREFIX \o strftime(clock)
      csv_files == Sorted(DOMAIN folder)
      out == process_files(csv_files, folder)
  IN IF ~is_dir
       THEN /\ status_label' = StatusInvalidFolder
            /\ runs' = Append(runs, RunRecord(FALSE, << >>, << >>, NothingDone,
                                              FALSE, StatusInvalidFolder))
            /\ UNCHANGED <<folder, clock>>
     ELSE IF csv_files = << >>
       THEN /\ status_label' = StatusNoCsv
            /\ runs' = Append(runs, RunRecord(TRUE, output_filename, csv_files,
                                              NothingDone, FALSE, StatusNoCsv))
            /\ UNCHANGED <<folder, clock>>
     ELSE IF no_results(out.rows, out.processed)
       THEN /\ status_label' = StatusNoResults
            /\ runs' = Append(runs, RunRecord(TRUE, output_filename, csv_files,
                                              out, FALSE, StatusNoResults))
            /\ UNCHANGED <<folder, clock>>
     ELSE IF to_csv_raises
       THEN /\ status_label' = StatusSaveError
            /\ runs' = Append(runs, RunRecord(TRUE, output_filename, csv_files,
                                              out, FALSE, StatusSaveError))
            /\ UNCHANGED <<folder, clock>>
     ELSE /\ folder' = [n \in (DOMAIN folder) \cup {output_filename} |->
                          IF n = output_filename THEN SummaryFile(out.rows)
                          ELSE folder[n]]
          /\ status_label' = StatusSuccess
          /\ runs' = Append(runs, RunRecord(TRUE, output_filename, csv_files,
                                            out, TRUE, StatusSuccess))
          /\ UNCHANGED clock

\* the call button is pressed
Run ==
  /\ Len(runs) < MaxRuns
  /\ \E is_dir, to_csv_raises \in BOOLEAN : process_folder_gui(is_dir, to_csv_raises)
  /\ UNCHANGED calcVars

\* wall-clock time passes between runs
Tick ==
  /\ clock < MaxClock
  /\ clock' = clock + 1
  /\ UNCHANGED <<folder, status_label, runs>>
  /\ UNCHANGED calcVars

\* the input files of a folder: two ordinary names, one before and one after the
\* output prefix in the character order, and one file of the user's whose name
\* starts with the output prefix
SampleCoords == {<< >>, << <<0, 0>> >>, << <<0, 0>>, <<0, 4>> >>}
SampleFaults(pts) == IF Len(pts) >= 2 THEN {"none", "fit", "maximum"} ELSE {"none"}
Contents ==
  {EmptyFile, Unreadable, Table(FALSE, FALSE, << <<0, 0>> >>, "none")}
    \cup UNION {{Table(TRUE, l, pts, f) : l \in BOOLEAN, f \in SampleFaults(pts)} :
                  pts \in SampleCoords}
OrdinaryNames == {<<1>>, <<3>>}
UserOutputLikeName == OUTPUT_PREFIX
UserOutputLikeContents == {Table(TRUE, TRUE, << <<0, 0>>, <<0, 4>> >>, "none")}
InitialFolders ==
  {dir \in UNION {[names -> Contents \cup UserOutputLikeContents] :
                    names \in SUBSET (OrdinaryNames \cup {UserOutputLikeName})} :
     \A n \in DOMAIN dir :
       IF n = UserOutputLikeName THEN dir[n] \in UserOutputLikeContents
       ELSE dir[n] \in Contents}

CalculatorIdle ==
  /\ coords = << >>
  /\ fault = "none"
  /\ result = NoResult
  /\ searched = FALSE
  /\ pc = "ready"
  /\ ref = NoRef

BatchInit ==
  /\ folder \in InitialFolders
  /\ clock = 0
  /\ status_label = StatusIdle
  /\ runs = << >>
  /\ CalculatorIdle

BatchNext == Run \/ Tick

BatchSpec == BatchInit /\ [][BatchNext]_vars

\* ------------------------------------------------------------ claims: batch run
\* the files the runs did not write: the input files of the folder
Inputs == {n \in DOMAIN folder : folder[n].kind # "summary"}
RunIds == 1..Len(runs)
\* the positions of the rows of a run that come from the file n
RowsOf(r, n) == {i \in 1..Len(r.all_results) : r.all_results[i].Identifier = n}
NoOutputStatuses == {StatusInvalidFolder, StatusNoCsv, StatusNoResults}

\* C7: in every run over the folder a file whose processing raises gives exactly
\* one row, with NumFoci = -1 and undefined metrics, and the files sorted after
\* it still give their rows; NumFoci = -1 marks nothing else: an empty file and
\* a table of zero points give NumFoci = 0, and a row from the Calculator has
\* NumFoci = the number of points of its file.
C7_FaultRows ==
  \A k \in RunIds :
    LET r == runs[k] IN
    r.valid_folder =>
      \A n \in Inputs :
        ~StartsWith(n, OUTPUT_PREFIX) =>
          /\ folder[n].kind = "unreadable" =>
               /\ Cardinality(RowsOf(r, n)) = 1
               /\ \A i \in RowsOf(r, n) :
                    /\ r.all_results[i].NumFoci = -1
                    /\ r.all_results[i].Avg_NND = NaN
                    /\ r.all_results[i].Avg_Inverse_NND = NaN
          /\ \A i \in RowsOf(r, n) :
               r.all_results[i].NumFoci = -1 => folder[n].kind = "unreadable"
          /\ folder[n].kind = "empty" =>
               /\ Cardinality(RowsOf(r, n)) = 1
               /\ \A i \in RowsOf(r, n) : r.all_results[i].NumFoci = 0
          /\ HasXY(folder[n]) =>
               /\ Cardinality(RowsOf(r, n)) = 1
               /\ \A i \in RowsOf(r, n) :
                    r.all_results[i].NumFoci = Len(folder[n].coords)
C7_Witness ==
  /\ Len(runs) = 1
  /\ runs[1].valid_folder
  /\ <<1>> \in DOMAIN folder
  /\ folder[<<1>>].kind = "unreadable"
  /\ Len(runs[1].all_results) = 2
  /\ runs[1].all_results[1] = Row(<<1>>, "Processing Error", NaN, NaN, -1)
  /\ runs[1].all_results[2].Identifier = <<3>>
  /\ runs[1].all_results[2].NumFoci = 2

\* C8 as stated: a run in which no file gave a valid metrics row (invalid folder,
\* no CSV files, every file skipped or faulted) reports that there is nothing to
\* report and writes no table; a table is written only by a run with at least
\* one usable unit.
C8_NoTableWithoutUsableUnit ==
  \A k \in RunIds :
    LET r == runs[k] IN
    /\ r.processed_count = 0 => ~r.saved /\ r.status \in NoOutputStatuses
    /\ r.saved => r.processed_count >= 1

\* C8 as amended: a run in which no file gave any row (invalid folder, no CSV
\* files, every file skipped) ends with the matching error or "no results"
\* status and writes no table; a run with at least one row, sentinel rows of
\* faulted or empty files included, writes its table unless the write itself
\* fails; the tables in the folder are exactly those of the runs that saved.
C8_NoTableWithoutRows ==
  /\ \A k \in RunIds :
       LET r == runs[k] IN
       /\ r.all_results = << >> =>
            /\ ~r.saved
            /\ r.status = IF ~r.valid_folder THEN StatusInvalidFolder
                          ELSE IF r.csv_files = << >> THEN StatusNoCsv
                          ELSE StatusNoResults
       /\ r.all_results # << >> =>
            \/ r.saved /\ r.status = StatusSuccess
            \/ ~r.saved /\ r.status = StatusSaveError
  /\ (DOMAIN folder) \ Inputs = {runs[k].output_filename : k \in {j \in RunIds : runs[j].saved}}
C8_Witness ==
  /\ Len(runs) = 1
  /\ runs[1].saved
  /\ runs[1].processed_count = 0
  /\ runs[1].all_results = <<Row(<<3>>, "Processing Error", NaN, NaN, -1)>>
  /\ folder[runs[1].output_filename] = SummaryFile(runs[1].all_results)

\* C9: no run writes its summary under the file name an earlier run wrote to, so
\* no summary is overwritten.
C9_NeverOverwrites ==
  \A i, j \in RunIds :
    (i < j /\ runs[i].saved /\ runs[j].saved) =>
      runs[i].output_filename # runs[j].output_filename

\* C10: after any runs on the folder, no row has the Identifier of a file whose
\* name starts with "NND_Summary_Results_", every row comes from an input file,
\* each file has at most one row, the rows are in sorted file-name order, and
\* every run over the folder has the same rows.
C10_PreviousOutputsSkipped ==
  /\ \A k \in RunIds :
       LET rows == runs[k].all_results IN
       /\ \A i \in 1..Len(rows) :
            /\ ~StartsWith(rows[i].Identifier, OUTPUT_PREFIX)
            /\ rows[i].Identifier \in Inputs
       /\ \A i, j \in 1..Len(rows) :
            i < j => LexLess(rows[i].Identifier, rows[j].Identifier)
  /\ \A k, m \in RunIds :
       (runs[k].valid_folder /\ runs[m].valid_folder) =>
         runs[k].all_results = runs[m].all_results
C10_Witness ==
  /\ Len(runs) = 2
  /\ runs[1].saved
  /\ runs[2].saved
  /\ runs[1].output_filename # runs[2].output_filename
  /\ \E i \in 1..Len(runs[2].csv_files) : runs[2].csv_files[i] = runs[1].output_filename
  /\ OUTPUT_PREFIX \in Inputs
  /\ Len(runs[2].all_results) = 2
  /\ runs[2].all_results = runs[1].all_results

====
